---- MODULE Spec2Model ----
(***************************************************************************)
(* Model of the serverless-tsoa plugin (src/src/index.ts, the revision     *)
(* that starts at line 207): the lifecycle hooks, generate(), watch() and  *)
(* its change handler, conditionalCopy() and hashFile().                   *)
(*                                                                         *)
(* One generate() call is a "run".  A run is an async function: it is cut  *)
(* at its await points, and runs started by different events interleave at *)
(* those points, and inside fs.copy, which is not atomic.  The three       *)
(* generators (tsoa's generateSpec and generateRoutes, orval's generate)   *)
(* are external: each either writes its output, derived from the sources  *)
(* as it read them while it ran, or throws.                                *)
(*                                                                         *)
(* The spec generator writes below the output directory its configuration *)
(* named when it was called.  A rejected promise of the change handler is  *)
(* held by nobody: node reports it and, depending on its version and       *)
(* flags, terminates the process or carries on; both outcomes are kept.    *)
(*                                                                         *)
(* A path is a sequence of segments; an absolute path starts with "/".     *)
(* Relative paths handed to the file system are resolved against the       *)
(* process working directory, which is the service directory.              *)
(***************************************************************************)
EXTENDS Integers, Sequences, FiniteSets, TLC

VARIABLES
    constructed,    \* the configuration the plugin was constructed with (never assigned)
    pluginConfig,   \* this.pluginConfig; spec.outputDirectory is assigned by generate()
    source,         \* content of the watched source tree, read by the generators
    fs,             \* the file system: path -> bytes, for the files that exist
    runs,           \* the generate() calls made so far, in call order
    hookState,      \* the lifecycle hook of this process: idle, running, resolved, rejected
    watching,       \* chokidar watcher created and "change" handler registered
    unwatched,      \* paths handed to watcher.unwatch()
    unhandled,      \* rejected promises of the change handler that nothing handles
    alive,          \* the host process has not been terminated
    written,        \* log of file writes: who wrote which path in which run
    ownEvents,      \* "change" events chokidar holds for files the plugin itself wrote
    retryOwed       \* a watch run has failed and no run has been started since

vars == <<constructed, pluginConfig, source, fs, runs, hookState, watching, unwatched,
          unhandled, alive, written, ownEvents, retryOwed>>

----------------------------------------------------------------------------
(* Bounds *)

MaxRuns == 3

MaxBurstRuns == 5

MaxCalls == 3

----------------------------------------------------------------------------
(* Paths: path.join of node *)

\* this.serverlessConfig.servicePath
ServicePath == constructed.servicePath

Cwd == ServicePath

IsAbsolute(p) == p # <<>> /\ Head(p) = "/"

RECURSIVE Normalize(_, _)
Normalize(segs, acc) ==
    IF segs = <<>> THEN acc
    ELSE LET h == Head(segs)
             n == Len(acc)
         IN  IF h = "." THEN Normalize(Tail(segs), acc)
             ELSE IF h = ".." THEN
                  IF n > 0 /\ acc[n] = "/" THEN Normalize(Tail(segs), acc)
                  ELSE IF n > 0 /\ acc[n] # ".."
                       THEN Normalize(Tail(segs), SubSeq(acc, 1, n - 1))
                       ELSE Normalize(Tail(segs), Append(acc, h))
             ELSE Normalize(Tail(segs), Append(acc, h))

Join(a, b) ==
    IF a = <<>> THEN Normalize(b, <<>>)
    ELSE Normalize(a \o (IF IsAbsolute(b) THEN Tail(b) ELSE b), <<>>)

Resolve(p) == IF IsAbsolute(p) THEN Normalize(p, <<>>) ELSE Join(Cwd, p)

\* `.${PLUGIN_NAME}`
DotPluginName == ".tsoa"

WorkDir == Join(ServicePath, <<DotPluginName>>)

SpecFileName(spec) ==
    LET base == IF spec.specFileBaseName = "" THEN "swagger" ELSE spec.specFileBaseName
    IN  IF spec.yaml
        THEN (IF base = "swagger" THEN "swagger.yaml" ELSE "openapi.yaml")
        ELSE (IF base = "swagger" THEN "swagger.json" ELSE "openapi.json")

RoutesFileName(routes) ==
    IF routes.routesFileName = "" THEN "routes.ts" ELSE routes.routesFileName

\* client is a string (the target itself) or an output object with a target
ClientTarget(client) == IF client.isString THEN client.target ELSE client.target

----------------------------------------------------------------------------
(* Files, generators and fingerprints *)

Sources == {"s1", "s2"}

NoFile == <<>>

ReadFile(p) == IF Resolve(p) \in DOMAIN fs THEN fs[Resolve(p)] ELSE NoFile

WriteFile(f, p, bytes) ==
    [q \in DOMAIN f \cup {Resolve(p)} |-> IF q = Resolve(p) THEN bytes ELSE f[q]]

SpecDocument(s) == <<"spec", s>>

RoutesCode(s) == <<"routes", s>>

ClientCode(specBytes) == <<"client", specBytes[2]>>

Sha1(bytes) == <<"sha1", bytes>>

Uuid(r, side) == <<"uuid", r, side>>

\* A hashFile that hashes an unreadable file as an empty one.
HashFileMissingIsEmpty(p, r, side) == Sha1(ReadFile(p))

\* A hashFile that returns a fresh value for every file.
HashFileAlwaysFresh(p, r, side) == Sha1(Uuid(r, side))

HashFile(p, r, side) ==
    IF ReadFile(p) # NoFile THEN Sha1(ReadFile(p)) ELSE Sha1(Uuid(r, side))

NoHash == <<>>

----------------------------------------------------------------------------
(* Configurations the plugin is constructed with *)

SpecConfigs ==
    { [outputDirectory |-> <<"api">>, specFileBaseName |-> "openapi", yaml |-> FALSE],
      [outputDirectory |-> <<"api">>, specFileBaseName |-> "", yaml |-> TRUE],
      [outputDirectory |-> <<"..", "api">>, specFileBaseName |-> "openapi", yaml |-> FALSE] }

RoutesConfig == [routesDir |-> <<"src", "generated">>, routesFileName |-> ""]

ClientConfig == [isString |-> TRUE, target |-> <<"src", "client.ts">>]

\* The service directory: a project directory, or the file system root
ServicePaths == { <<"/", "svc">>, <<"/">> }

\* custom.tsoa, and with it the servicePath of the serverless configuration.
\* The service at the root comes with the first spec block only.
PluginConfigs ==
    { c \in
        { [hasSpec |-> hs, hasRoutes |-> hr, hasClient |-> hc, reloadHandler |-> rh,
           spec |-> sc, routes |-> RoutesConfig, client |-> ClientConfig,
           servicePath |-> sp] :
             hs \in BOOLEAN, hr \in BOOLEAN, hc \in BOOLEAN, rh \in BOOLEAN,
             sc \in SpecConfigs, sp \in ServicePaths } :
        c.servicePath = <<"/">> =>
            (c.spec.outputDirectory = <<"api">> /\ ~c.spec.yaml) }

Hooks == {"tsoa:run", "before:offline:start", "before:package:createDeploymentArtifacts"}

----------------------------------------------------------------------------
(* Runs *)

InFlightPcs ==
    {"genSpec", "hashSrc", "hashDest", "copy", "copying", "genRoutes", "genClient"}

RunIds == 1..Len(runs)

InFlight == {r \in RunIds : runs[r].pc \in InFlightPcs}

NewRun(origin) ==
    [origin |-> origin, pc |-> "genSpec",
     specOutputFile |-> <<>>, workdirSpecOutputFile |-> <<>>,
     generatorDirectory |-> <<>>, routesOutputFile |-> <<>>,
     srcHash |-> NoHash, destHash |-> NoHash,
     srcBytes |-> NoFile, destBytes |-> NoFile,
     staged |-> NoFile, published |-> "no",
     specInvoked |-> FALSE, routesInvoked |-> FALSE, clientInvoked |-> FALSE,
     routesDone |-> FALSE, clientRead |-> NoFile,
     failedAt |-> "none",
     clientFiles |-> {},
     file |-> <<>>,
     sourcesSeen |-> {},
     eventDuring |-> InFlight, startDuring |-> InFlight]

\* The file system the process starts with: nothing generated yet, or the
\* public spec file an earlier session published from sources "s1".
InitialFileSystems(cfg) ==
    {<< >>} \cup
    IF cfg.spec.outputDirectory = <<"api">> /\ ~cfg.spec.yaml
    THEN {WriteFile(<< >>, Join(cfg.spec.outputDirectory, <<SpecFileName(cfg.spec)>>),
                    SpecDocument("s1"))}
    ELSE {}

Init ==
    /\ pluginConfig \in PluginConfigs
    /\ constructed = pluginConfig
    /\ source \in Sources
    /\ fs \in InitialFileSystems(pluginConfig)
    /\ ownEvents = {}
    /\ runs = << >>
    /\ hookState = "idle"
    /\ watching = FALSE
    /\ unwatched = {}
    /\ unhandled = 0
    /\ alive = TRUE
    /\ written = {}
    /\ retryOwed = FALSE

----------------------------------------------------------------------------
(* What the caller of generate() does when the promise settles *)

callerVars == <<hookState, watching, unwatched, unhandled, alive, retryOwed>>

\* generate() rejected.  A hook awaits it, so the hook rejects to the host.
\* The change handler is an async listener whose promise nobody holds: the
\* rejection is unhandled, and node either warns or terminates the process.
\* A direct caller of conditionalCopy() just sees the call fail.
Rejected(origin) ==
    IF origin = "conditionalCopy"
    THEN UNCHANGED callerVars
    ELSE IF origin = "change"
    THEN /\ unhandled' = unhandled + 1
         /\ \E terminate \in BOOLEAN : alive' = ~terminate
         /\ retryOwed' = TRUE
         /\ UNCHANGED <<hookState, watching, unwatched>>
    ELSE /\ hookState' = "rejected"
         /\ UNCHANGED <<watching, unwatched, unhandled, alive, retryOwed>>

\* A before:offline:start hook that starts the watcher whatever reloadHandler is.
ResolvedAlwaysWatches(run) ==
    IF run.origin = "change"
    THEN UNCHANGED callerVars
    ELSE /\ hookState' = "resolved"
         /\ IF run.origin = "before:offline:start"
            THEN /\ watching' = TRUE
                 /\ unwatched' = {Join(ServicePath, run.specOutputFile),
                                  Join(ServicePath, run.routesOutputFile)}
                                 \cup run.clientFiles
            ELSE UNCHANGED <<watching, unwatched>>
         /\ UNCHANGED <<unhandled, alive, retryOwed>>

\* generate() returned {specFile, routesFile, clientFiles}.
Resolved(run) ==
    IF run.origin = "change"
    THEN UNCHANGED callerVars
    ELSE /\ hookState' = "resolved"
         /\ IF run.origin = "before:offline:start" /\ pluginConfig.reloadHandler
            THEN /\ watching' = TRUE
                 /\ unwatched' = {Join(ServicePath, run.specOutputFile),
                                  Join(ServicePath, run.routesOutputFile)}
                                 \cup run.clientFiles
            ELSE UNCHANGED <<watching, unwatched>>
         /\ UNCHANGED <<unhandled, alive, retryOwed>>

----------------------------------------------------------------------------
(* The chokidar watcher of watch() *)

\* ignored: /(^|[\/\\])\../ : a path with a segment that starts with a dot
DotSegments == {DotPluginName}

Ignored(p) == \E i \in 1..Len(p) : p[i] \in DotSegments

IsBelow(dir, p) == Len(p) >= Len(dir) /\ SubSeq(p, 1, Len(dir)) = dir

\* unwatch() resolves a relative path against the working directory
Unwatched(p) == \E u \in unwatched : Resolve(u) = Resolve(p)

DeliversChange(p) ==
    /\ watching
    /\ IsBelow(ServicePath, Resolve(p))
    /\ ~Ignored(Resolve(p))
    /\ ~Unwatched(p)

\* A write to a watched file that exists is a "change"; a write that creates
\* the file is an "add", which has no handler.
Notify(p) ==
    IF DeliversChange(p) /\ ReadFile(p) # NoFile
    THEN ownEvents \cup {Resolve(p)}
    ELSE ownEvents

\* The source file a developer edits
SourceFile == Join(ServicePath, <<"src", "controller.ts">>)

----------------------------------------------------------------------------
(* generate(): from the call to the first await *)

\* A generate() that checks only the spec block.
ConfigErrorSpecOnly(cfg) == ~cfg.hasSpec

ConfigError(cfg) == ~cfg.hasSpec \/ ~cfg.hasRoutes

\* A generate() that leaves the spec generator's output directory as configured.
StagedOutputDirectoryInPlace(spec) == spec.outputDirectory

StagedOutputDirectory(spec) == Join(WorkDir, spec.outputDirectory)

\* A generator reads the sources at some time between its call and its
\* return: an edit made in between is one it may or may not have read.
Seen(rs, s) ==
    [r \in DOMAIN rs |->
        IF rs[r].pc \in {"genSpec", "genRoutes"}
        THEN [rs[r] EXCEPT !.sourcesSeen = @ \cup {s}]
        ELSE rs[r]]

BeginFor(origin, file, s) ==
    IF ConfigError(pluginConfig)
    THEN /\ runs' = Append(Seen(runs, s),
                           [NewRun(origin) EXCEPT !.pc = "threw",
                                                       !.file = file,
                                                       !.failedAt = "config"])
         /\ UNCHANGED pluginConfig
    ELSE LET spec == pluginConfig.spec
             routes == pluginConfig.routes
             specOutputFile == Join(spec.outputDirectory, <<SpecFileName(spec)>>)
         IN  /\ runs' = Append(Seen(runs, s),
                  [NewRun(origin) EXCEPT
                     !.sourcesSeen = {s},
                     !.specOutputFile = specOutputFile,
                     !.workdirSpecOutputFile = Join(WorkDir, specOutputFile),
                     !.generatorDirectory = StagedOutputDirectory(spec),
                     !.routesOutputFile =
                         Join(routes.routesDir, <<RoutesFileName(routes)>>),
                     !.file = file,
                     !.specInvoked = TRUE])
             /\ pluginConfig' = [pluginConfig EXCEPT
                     !.spec.outputDirectory = StagedOutputDirectory(spec)]

Begin(origin) == BeginFor(origin, <<>>, source)

Hook(h) ==
    /\ alive
    /\ hookState = "idle"
    /\ Begin(h)
    /\ hookState' = IF ConfigError(pluginConfig) THEN "rejected" ELSE "running"
    /\ UNCHANGED <<constructed, source, fs, watching, unwatched, unhandled, alive,
                   written, ownEvents, retryOwed>>

\* A source file below the service directory is edited; the "change" handler
\* calls generate() at once.
ChangeUpTo(s, max) ==
    /\ alive
    /\ watching
    /\ Len(runs) < max
    /\ DeliversChange(SourceFile)
    /\ source' = s
    /\ BeginFor("change", SourceFile, s)
    /\ IF ConfigError(pluginConfig)
       THEN Rejected("change")
       ELSE retryOwed' = FALSE /\ UNCHANGED <<hookState, watching, unwatched, unhandled, alive>>
    /\ UNCHANGED <<constructed, fs, written, ownEvents>>

Change(s) == ChangeUpTo(s, MaxRuns)

\* chokidar delivers the "change" event of a file the plugin wrote; the same
\* handler calls generate().
OwnChange(p) ==
    /\ alive
    /\ watching
    /\ Len(runs) < MaxRuns
    /\ p \in ownEvents
    /\ ownEvents' = ownEvents \ {p}
    /\ BeginFor("change", p, source)
    /\ IF ConfigError(pluginConfig)
       THEN Rejected("change")
       ELSE retryOwed' = FALSE /\ UNCHANGED <<hookState, watching, unwatched, unhandled, alive>>
    /\ UNCHANGED <<constructed, source, fs, written>>

----------------------------------------------------------------------------
(* generate(): the steps between its await points *)

Throw(r, stage) ==
    /\ runs' = [runs EXCEPT ![r].pc = "threw", ![r].failedAt = stage,
                            ![r].sourcesSeen = {}]
    /\ Rejected(runs[r].origin)

Wrote(by, r, p) == written \cup {[path |-> Resolve(p), by |-> by, run |-> r]}

\* A generate() that calls the routes generator right after the spec generator.
SpecGeneratorWritesThenRoutes(r) ==
    LET run == runs[r]
        out == Join(run.generatorDirectory, <<SpecFileName(pluginConfig.spec)>>)
    IN  /\ alive /\ run.pc = "genSpec"
        /\ \E s \in run.sourcesSeen :
              /\ fs' = WriteFile(fs, out, SpecDocument(s))
              /\ runs' = [runs EXCEPT ![r].pc = "genRoutes",
                                      ![r].routesInvoked = TRUE,
                                      ![r].sourcesSeen = {source},
                                      ![r].staged = SpecDocument(s)]
        /\ written' = Wrote("specGenerator", r, out)
        /\ ownEvents' = Notify(out)
        /\ UNCHANGED <<constructed, pluginConfig, source>>
        /\ UNCHANGED callerVars

SpecGeneratorWrites(r) ==
    LET run == runs[r]
        out == Join(run.generatorDirectory, <<SpecFileName(pluginConfig.spec)>>)
    IN  /\ alive /\ run.pc = "genSpec"
        /\ \E s \in run.sourcesSeen :
              /\ fs' = WriteFile(fs, out, SpecDocument(s))
              /\ runs' = [runs EXCEPT ![r].pc = "hashSrc",
                                      ![r].sourcesSeen = {},
                                      ![r].staged = SpecDocument(s)]
        /\ written' = Wrote("specGenerator", r, out)
        /\ ownEvents' = Notify(out)
        /\ UNCHANGED <<constructed, pluginConfig, source>>
        /\ UNCHANGED callerVars

SpecGeneratorThrows(r) ==
    /\ alive /\ runs[r].pc = "genSpec"
    /\ Throw(r, "spec")
    /\ UNCHANGED <<constructed, pluginConfig, source, fs, written, ownEvents>>

HashSrc(r) ==
    /\ alive /\ runs[r].pc = "hashSrc"
    /\ runs' = [runs EXCEPT ![r].pc = "hashDest",
                            ![r].srcHash = HashFile(runs[r].workdirSpecOutputFile, r, "src"),
                            ![r].srcBytes = ReadFile(runs[r].workdirSpecOutputFile)]
    /\ UNCHANGED <<constructed, pluginConfig, source, fs, written, ownEvents>>
    /\ UNCHANGED callerVars

InvokeRoutes(run) ==
    [run EXCEPT !.pc = "genRoutes", !.routesInvoked = TRUE, !.sourcesSeen = {source}]

Return(run) == [run EXCEPT !.pc = "returned"]

\* conditionalCopy() returns: generate() goes on to the routes generator, a
\* direct caller gets its promise resolved.
CopyReturns(run) ==
    IF run.origin = "conditionalCopy" THEN Return(run) ELSE InvokeRoutes(run)

\* A conditionalCopy that never copies.
HashDestNeverCopies(r) ==
    LET run == runs[r]
        destHash == HashFile(run.specOutputFile, r, "dest")
    IN  /\ alive /\ run.pc = "hashDest"
        /\ runs' = [runs EXCEPT ![r] =
              CopyReturns([run EXCEPT !.destHash = destHash,
                                      !.destBytes = ReadFile(run.specOutputFile),
                                      !.published = "unchanged"])]
        /\ UNCHANGED <<constructed, pluginConfig, source, fs, written, ownEvents>>
        /\ UNCHANGED callerVars

HashDest(r) ==
    LET run == runs[r]
        destHash == HashFile(run.specOutputFile, r, "dest")
    IN  /\ alive /\ run.pc = "hashDest"
        /\ runs' = [runs EXCEPT ![r] =
              IF run.srcHash # destHash
              THEN [run EXCEPT !.pc = "copy", !.destHash = destHash,
                               !.destBytes = ReadFile(run.specOutputFile)]
              ELSE CopyReturns([run EXCEPT !.destHash = destHash,
                                           !.destBytes = ReadFile(run.specOutputFile),
                                           !.published = "unchanged"])]
        /\ UNCHANGED <<constructed, pluginConfig, source, fs, written, ownEvents>>
        /\ UNCHANGED callerVars

\* fs.copy is not atomic: the destination is opened and truncated, then
\* filled; while that lasts it holds part of the source.
PartialCopy(bytes) == <<"partial", bytes[2]>>

RemoveFile(f, p) == [q \in DOMAIN f \ {Resolve(p)} |-> f[q]]

\* ensureDir succeeded and fs.copy has opened the destination
CopyOpens(r) ==
    LET run == runs[r]
    IN  /\ alive /\ run.pc = "copy"
        /\ ReadFile(run.workdirSpecOutputFile) # NoFile
        /\ Resolve(run.workdirSpecOutputFile) # Resolve(run.specOutputFile)
        /\ fs' = WriteFile(fs, run.specOutputFile,
                           PartialCopy(ReadFile(run.workdirSpecOutputFile)))
        /\ written' = Wrote("conditionalCopy", r, run.specOutputFile)
        /\ ownEvents' = Notify(run.specOutputFile)
        /\ runs' = [runs EXCEPT ![r].pc = "copying"]
        /\ UNCHANGED <<constructed, pluginConfig, source>>
        /\ UNCHANGED callerVars

CopyCompletes(r) ==
    LET run == runs[r]
    IN  /\ alive /\ run.pc = "copying"
        /\ ReadFile(run.workdirSpecOutputFile) # NoFile
        /\ fs' = WriteFile(fs, run.specOutputFile, ReadFile(run.workdirSpecOutputFile))
        /\ runs' = [runs EXCEPT ![r] = CopyReturns([run EXCEPT !.published = "written"])]
        /\ UNCHANGED <<constructed, pluginConfig, source, written, ownEvents>>
        /\ UNCHANGED callerVars

\* ensureDir or fs.copy fails before the destination is touched
CopyThrows(r) ==
    /\ alive /\ runs[r].pc = "copy"
    /\ Throw(r, "copy")
    /\ UNCHANGED <<constructed, pluginConfig, source, fs, written, ownEvents>>

\* fs.copy fails after it has opened the destination: node removes it
CopyAborts(r) ==
    /\ alive /\ runs[r].pc = "copying"
    /\ fs' = RemoveFile(fs, runs[r].specOutputFile)
    /\ Throw(r, "copy")
    /\ UNCHANGED <<constructed, pluginConfig, source, written, ownEvents>>

RoutesGeneratorWrites(r) ==
    LET run == runs[r]
        done == [run EXCEPT !.routesDone = TRUE, !.sourcesSeen = {}]
    IN  /\ alive /\ run.pc = "genRoutes"
        /\ \E s \in run.sourcesSeen :
              fs' = WriteFile(fs, run.routesOutputFile, RoutesCode(s))
        /\ written' = Wrote("routesGenerator", r, run.routesOutputFile)
        /\ ownEvents' = Notify(run.routesOutputFile)
        /\ IF pluginConfig.hasClient
           THEN /\ runs' = [runs EXCEPT ![r] =
                        [done EXCEPT !.pc = "genClient", !.clientInvoked = TRUE]]
                /\ UNCHANGED callerVars
           ELSE /\ runs' = [runs EXCEPT ![r] = Return(done)]
                /\ Resolved(Return(done))
        /\ UNCHANGED <<constructed, pluginConfig, source>>

RoutesGeneratorThrows(r) ==
    /\ alive /\ runs[r].pc = "genRoutes"
    /\ Throw(r, "routes")
    /\ UNCHANGED <<constructed, pluginConfig, source, fs, written, ownEvents>>

ClientInput(run) == Join(ServicePath, run.specOutputFile)

ClientGeneratorWrites(r) ==
    LET run == runs[r]
        input == ReadFile(ClientInput(run))
        target == ClientTarget(pluginConfig.client)
        done == Return([run EXCEPT !.clientRead = input,
                                   !.clientFiles = IF target # <<>> THEN {target} ELSE {}])
    IN  /\ alive /\ run.pc = "genClient"
        /\ input # NoFile
        /\ fs' = WriteFile(fs, Join(ServicePath, target), ClientCode(input))
        /\ written' = Wrote("clientGenerator", r, Join(ServicePath, target))
        /\ ownEvents' = Notify(Join(ServicePath, target))
        /\ runs' = [runs EXCEPT ![r] = done]
        /\ Resolved(done)
        /\ UNCHANGED <<constructed, pluginConfig, source>>

ClientGeneratorThrows(r) ==
    /\ alive /\ runs[r].pc = "genClient"
    /\ Throw(r, "client")
    /\ UNCHANGED <<constructed, pluginConfig, source, fs, written, ownEvents>>

Step(r) ==
    \/ SpecGeneratorWrites(r)
    \/ SpecGeneratorThrows(r)
    \/ HashSrc(r)
    \/ HashDest(r)
    \/ CopyOpens(r)
    \/ CopyCompletes(r)
    \/ CopyThrows(r)
    \/ CopyAborts(r)
    \/ RoutesGeneratorWrites(r)
    \/ RoutesGeneratorThrows(r)
    \/ ClientGeneratorWrites(r)
    \/ ClientGeneratorThrows(r)

Next ==
    \/ \E h \in Hooks : Hook(h)
    \/ \E s \in Sources : Change(s)
    \/ \E p \in ownEvents : OwnChange(p)
    \/ \E r \in RunIds : Step(r)

Spec == Init /\ [][Next]_vars

\* The event loop runs every continuation that is ready; file edits are the
\* environment's and may never come.
FairSpec == Spec /\ \A r \in 1..MaxRuns : WF_vars(r \in RunIds /\ Step(r))

\* A burst of edits: one configuration, more change events.
InitBurst ==
    /\ Init
    /\ pluginConfig.hasSpec /\ pluginConfig.hasRoutes /\ ~pluginConfig.hasClient
    /\ pluginConfig.reloadHandler
    /\ pluginConfig.spec.yaml
    /\ fs = << >>
    /\ source = "s1"

NextBurst ==
    \/ Hook("before:offline:start")
    \/ ChangeUpTo("s1", MaxBurstRuns)
    \/ \E r \in RunIds : Step(r)

SpecBurst == InitBurst /\ [][NextBurst]_vars

----------------------------------------------------------------------------
(* conditionalCopy() and hashFile() on their own: a caller that awaits one  *)
(* conditionalCopy(src, dest) after another, and stops at the first that   *)
(* throws.                                                                 *)

CopyPaths == { <<"/", "svc", ".tsoa", "api", "openapi.json">>,
               <<"/", "svc", "api", "openapi.json">>,
               <<"/", "svc", "api", "swagger.yaml">> }

CopyContents == {NoFile, SpecDocument("s1"), SpecDocument("s2")}

FileSystemOf(content) ==
    [p \in {q \in CopyPaths : content[q] # NoFile} |-> content[p]]

InitCopy ==
    /\ pluginConfig \in {c \in PluginConfigs : ~c.hasSpec /\ ~c.hasRoutes /\ ~c.hasClient
                                               /\ ~c.reloadHandler /\ c.spec.yaml
                                               /\ c.servicePath = <<"/", "svc">>}
    /\ constructed = pluginConfig
    /\ source = "s1"
    /\ fs \in {FileSystemOf(content) : content \in [CopyPaths -> CopyContents]}
    /\ ownEvents = {}
    /\ runs = << >>
    /\ hookState = "idle"
    /\ watching = FALSE
    /\ unwatched = {}
    /\ unhandled = 0
    /\ alive = TRUE
    /\ written = {}
    /\ retryOwed = FALSE

CallConditionalCopy(src, dest) ==
    /\ Len(runs) < MaxCalls
    /\ \A r \in RunIds : runs[r].pc = "returned"
    /\ runs' = Append(runs, [NewRun("conditionalCopy") EXCEPT
                                !.pc = "hashSrc",
                                !.workdirSpecOutputFile = src,
                                !.specOutputFile = dest])
    /\ UNCHANGED <<constructed, pluginConfig, source, fs, written, ownEvents>>
    /\ UNCHANGED callerVars

NextCopy ==
    \/ \E src \in CopyPaths, dest \in CopyPaths : CallConditionalCopy(src, dest)
    \/ \E r \in RunIds : HashSrc(r)
    \/ \E r \in RunIds : HashDest(r)
    \/ \E r \in RunIds : CopyOpens(r)
    \/ \E r \in RunIds : CopyCompletes(r)
    \/ \E r \in RunIds : CopyThrows(r)
    \/ \E r \in RunIds : CopyAborts(r)

SpecCopy == InitCopy /\ [][NextCopy]_vars

----------------------------------------------------------------------------
(* Properties *)

Run(r) == runs[r]

FromWatch(r) == Run(r).origin = "change"

\* C1: at most one generation run is in flight at any time; a change event
\* that arrives while a run is executing never starts an overlapping run.
C1_AtMostOneRunInFlight == Cardinality(InFlight) <= 1

\* The change events delivered while run r was executing, each named by the
\* run its handler call made.
EventsDuring(r) == {q \in RunIds : r \in Run(q).eventDuring}

StartedBy(events) == {q \in events : Run(q).specInvoked}

\* C2: three change events delivered while one run is executing start exactly
\* one additional run, and it starts only after the in-flight run has settled.
C2_BurstIsCoalesced ==
    \A r \in RunIds :
        Cardinality(EventsDuring(r)) = 3 =>
            /\ Cardinality(StartedBy(EventsDuring(r))) <= 1
            /\ \A q \in StartedBy(EventsDuring(r)) : r \notin Run(q).startDuring

PublicSpecFile ==
    Join(constructed.spec.outputDirectory, <<SpecFileName(constructed.spec)>>)

\* C3: every run of generate() publishes the spec to the public path derived
\* from the originally configured spec.outputDirectory, and stages it at that
\* same path inside the working directory.
C3_SamePathsOnEveryRun ==
    \A r \in RunIds :
        Run(r).specInvoked =>
            /\ Resolve(Run(r).specOutputFile) = Resolve(PublicSpecFile)
            /\ Run(r).workdirSpecOutputFile = Join(WorkDir, PublicSpecFile)

\* C4: when the spec generator stages the same bytes in two consecutive runs,
\* the second run does not publish the spec and invokes neither the routes
\* generator nor the client generator.
C4_ShortCircuit ==
    \A r \in RunIds :
        ( /\ r > 1
          /\ Run(r).startDuring = {}
          /\ Run(r).staged # NoFile
          /\ Run(r).staged = Run(r - 1).staged )
        => /\ Run(r).published # "written"
           /\ ~Run(r).routesInvoked
           /\ ~Run(r).clientInvoked

\* C5: within every run the spec generator has been invoked and has written
\* its output, and the conditional publish of the spec has completed, before
\* the routes generator or the client generator is invoked.
C5_SpecPublishedBeforeDownstream ==
    \A r \in RunIds :
        (Run(r).routesInvoked \/ Run(r).clientInvoked) =>
            /\ Run(r).specInvoked
            /\ Run(r).staged # NoFile
            /\ Run(r).srcHash # NoHash /\ Run(r).destHash # NoHash
            /\ Run(r).published \in {"unchanged", "written"}
            /\ Run(r).published = "written" <=> Run(r).srcHash # Run(r).destHash

C5_Witness ==
    \E r \in RunIds :
        /\ Run(r).clientInvoked
        /\ Run(r).published = "written"
        /\ \E q \in RunIds : Run(q).routesInvoked /\ Run(q).published = "unchanged"

\* C6: a failure of a run started by a change event never escapes: it is not
\* an unhandled rejection, the host process stays up and the watcher stays
\* subscribed.
C6_WatchFailureIsCaught ==
    \A r \in RunIds :
        (FromWatch(r) /\ Run(r).pc = "threw") =>
            unhandled = 0 /\ alive /\ watching

\* C7: whenever a run of the watch loop fails, another run is eventually
\* started without a new change event.  Stated for the host process that
\* survives its failures: a terminated process starts no run at all.
C7_RetryAfterFailure == (retryOwed /\ alive) ~> (~retryOwed \/ ~alive)

\* C8: generate() does not throw when a generator throws; it returns to its
\* caller.
C8_GeneratorFailureIsCaptured ==
    \A r \in RunIds :
        Run(r).failedAt \in {"spec", "routes", "client"} => Run(r).pc # "threw"

\* C9: with no spec block or no routes block, generate() fails to its caller
\* before any generator is invoked and before any file is written, and no
\* further run is made.
C9_ConfigurationErrorIsFatal ==
    (~constructed.hasSpec \/ ~constructed.hasRoutes) =>
        /\ Len(runs) <= 1
        /\ fs \in InitialFileSystems(constructed) /\ written = {}
        /\ ~watching
        /\ \A r \in RunIds :
              /\ Run(r).pc = "threw" /\ Run(r).failedAt = "config"
              /\ ~Run(r).specInvoked /\ ~Run(r).routesInvoked /\ ~Run(r).clientInvoked
              /\ hookState = "rejected"

C9_Witness ==
    /\ constructed.hasSpec /\ ~constructed.hasRoutes
    /\ Len(runs) = 1
    /\ Run(1).origin = "before:offline:start"
    /\ constructed.reloadHandler
    /\ hookState = "rejected"

\* C10: in a run where the client generator throws and the routes generator
\* succeeded, the routes output is at its public path at the end of the run,
\* and the run completes (it reports routes written, client failed).
C10_PartialFailureIndependence ==
    \A r \in RunIds :
        (Run(r).routesDone /\ Run(r).failedAt = "client") =>
            /\ ReadFile(Run(r).routesOutputFile) # NoFile
            /\ Run(r).pc = "returned"

OutputArtifacts == {w.path : w \in written}

\* C11: after watching has started, a write the plugin makes to one of its
\* output artifacts never delivers a change event to the handler and so
\* never starts a run.
C11_NoSelfTriggering ==
    \A r \in RunIds : FromWatch(r) => Run(r).file \notin OutputArtifacts

PublicRoutesFile ==
    Join(constructed.routes.routesDir, <<RoutesFileName(constructed.routes)>>)

PublicClientFile == Join(ServicePath, ClientTarget(constructed.client))

PublicPaths ==
    {Resolve(PublicSpecFile), Resolve(PublicRoutesFile), Resolve(PublicClientFile)}

C15_SecondRunWritesNothing ==
    \A r \in RunIds :
        ( /\ r > 1
          /\ Run(r - 1).pc = "returned"
          /\ Run(r).startDuring = {}
          /\ Run(r).staged # NoFile
          /\ Run(r).staged = Run(r - 1).staged )
        => \A w \in written : w.run = r => w.path \notin PublicPaths

\* C17: the spec the client generator reads in a run is the one that run's
\* spec generator produced, or has the same bytes.
C17_ClientReadsOwnSpec ==
    \A r \in RunIds :
        Run(r).clientRead # NoFile => Run(r).clientRead = Run(r).staged

\* What the spec generator has staged so far, in the runs made so far
StagedOutputs == {Run(r).staged : r \in RunIds} \ {NoFile}

\* C18: a spec file that conditionalCopy has written holds, in every state
\* in which it exists, the whole output that the spec generator has staged
\* in one of the runs made so far; it never holds part of one.
C18_PublishedIsSomeStagedOutput ==
    \A w \in written :
        (w.by = "conditionalCopy" /\ ReadFile(w.path) # NoFile) =>
            ReadFile(w.path) \in StagedOutputs

\* C19: the watcher is started only by before:offline:start, only with
\* reloadHandler set, only after the first generate() returned; tsoa:run and
\* before:package:createDeploymentArtifacts make one run, start no watcher
\* and reject when the run rejects.
C19_WatchOnlyFromOfflineStart ==
    /\ watching =>
          /\ Len(runs) >= 1
          /\ Run(1).origin = "before:offline:start"
          /\ Run(1).pc = "returned"
          /\ constructed.reloadHandler
          /\ hookState = "resolved"
    /\ (Len(runs) >= 1 /\ Run(1).origin # "before:offline:start") =>
          /\ Len(runs) = 1
          /\ ~watching
          /\ Run(1).pc = "threw" <=> hookState = "rejected"
          /\ Run(1).pc = "returned" <=> hookState = "resolved"

C19_Witness ==
    /\ watching
    /\ Len(runs) = 2

\* C20: on every run the directory handed to the spec generator lies beneath
\* the working directory <servicePath>/.tsoa, a path the watcher ignores.
C20_GeneratorWritesBelowWorkDir ==
    \A r \in RunIds :
        Run(r).specInvoked =>
            /\ IsBelow(WorkDir, Run(r).generatorDirectory)
            /\ Ignored(Resolve(Run(r).generatorDirectory))

DirectCall(r) == Run(r).origin = "conditionalCopy"

SameArguments(q, r) ==
    /\ Run(q).workdirSpecOutputFile = Run(r).workdirSpecOutputFile
    /\ Run(q).specOutputFile = Run(r).specOutputFile

WritesOf(r) == {w \in written : w.run = r}

\* C13: of two conditionalCopy(a, b) calls in a row with a unchanged, the
\* second makes no copy, and b holds after it the bytes it held after the
\* first.
C13_SecondPublishIsNoOp ==
    \A r \in RunIds :
        (r > 1 /\ DirectCall(r) /\ DirectCall(r - 1) /\ SameArguments(r - 1, r)) =>
            /\ Run(r).pc \notin {"copy", "copying", "threw"}
            /\ WritesOf(r) = {}
            /\ Run(r).pc = "returned" => Run(r).published = "unchanged"
            /\ (Run(r).pc = "returned" /\ r = Len(runs)) =>
                  /\ ReadFile(Run(r).specOutputFile) = Run(r - 1).srcBytes
                  /\ ReadFile(Run(r).specOutputFile) = Run(r).srcBytes

C13_Witness ==
    \E r \in RunIds :
        /\ r > 1 /\ DirectCall(r) /\ DirectCall(r - 1) /\ SameArguments(r - 1, r)
        /\ Run(r - 1).published = "written"
        /\ Run(r).pc = "returned"
        /\ r = Len(runs)
        /\ Run(r).workdirSpecOutputFile # Run(r).specOutputFile

\* C14: conditionalCopy(a, b) with a readable and b missing makes the copy:
\* it never takes b for unchanged, and when it returns b holds a's bytes.
C14_MissingDestinationIsWritten ==
    \A r \in RunIds :
        ( /\ DirectCall(r)
          /\ Run(r).destHash # NoHash
          /\ Run(r).srcBytes # NoFile
          /\ Run(r).destBytes = NoFile ) =>
            /\ Run(r).published # "unchanged"
            /\ Run(r).pc \in {"copy", "copying", "returned", "threw"}
            /\ (Run(r).pc = "returned" /\ r = Len(runs)) =>
                  /\ Run(r).published = "written"
                  /\ ReadFile(Run(r).specOutputFile) = Run(r).srcBytes
                  /\ \E w \in WritesOf(r) :
                        /\ w.by = "conditionalCopy"
                        /\ w.path = Resolve(Run(r).specOutputFile)

C14_Witness ==
    \E r \in RunIds :
        /\ DirectCall(r)
        /\ Run(r).srcBytes # NoFile
        /\ Run(r).destBytes = NoFile
        /\ Run(r).pc = "returned"
        /\ r = Len(runs)

\* Every hashFile() call made so far: what it read and what it returned.
Fingerprints ==
    {[call |-> <<r, "src">>, bytes |-> Run(r).srcBytes, hash |-> Run(r).srcHash] :
        r \in {q \in RunIds : Run(q).srcHash # NoHash}}
    \cup
    {[call |-> <<r, "dest">>, bytes |-> Run(r).destBytes, hash |-> Run(r).destHash] :
        r \in {q \in RunIds : Run(q).destHash # NoHash}}

\* C16: the value hashFile returns for a file it cannot read differs from
\* every value it returns in any other call; for two readable files the
\* values are equal exactly when the bytes are.
C16_FingerprintsCompare ==
    \A f \in Fingerprints, g \in Fingerprints :
        f.call # g.call =>
            IF f.bytes = NoFile \/ g.bytes = NoFile
            THEN f.hash # g.hash
            ELSE f.hash = g.hash <=> f.bytes = g.bytes

C16_Witness ==
    /\ \E f \in Fingerprints, g \in Fingerprints :
          f.call # g.call /\ f.bytes = NoFile /\ g.bytes = NoFile
    /\ \E f \in Fingerprints, g \in Fingerprints :
          f.call # g.call /\ f.bytes # NoFile /\ f.bytes = g.bytes
    /\ \E f \in Fingerprints, g \in Fingerprints :
          f.bytes # NoFile /\ g.bytes # NoFile /\ f.bytes # g.bytes

====
